---- MODULE Spec2Model ----
(***************************************************************************)
(* Event registration on a spreadsheet used as a database.                 *)
(*                                                                         *)
(*   lib/sheets  (src/unnamed/part_000): getSheetData, createTable,        *)
(*               getTableData, addToTable, deleteTable                     *)
(*   route       (src/src/app/api/events/register/route.ts): POST          *)
(*                                                                         *)
(* Row and column indices are 0-based as in the source; At(data, i) is     *)
(* data[i].  A cell is a string.  The JavaScript value undefined (a field  *)
(* absent from the request body) is the distinguished value Undefined.     *)
(***************************************************************************)
EXTENDS Integers, Sequences, FiniteSets, TLC

VARIABLES
    sheet,            \* rows of the company's sheet
    companies,        \* rows of the 'companies' sheet
    pc,               \* per request: position in POST
    body,             \* per request: the parsed request body
    exactEventName,   \* per request: route.ts local exactEventName (Undefined = null)
    routeRow,         \* per request: row index i logged at route.ts:126/150
    tableStartIndex,  \* per request: tableStartIndex of the last lib call
    insertPosition,   \* per request: addToTable local insertPosition
    response,         \* per request: the HTTP answer
    reads,            \* per request: spreadsheet reads performed so far
    writes,           \* per request: spreadsheet writes performed so far
    apiFailed,        \* per request: a spreadsheet call of the request threw
    postsLeft,        \* POST requests the clients may still send
    ct,               \* the createTable call in flight
    dt,               \* the deleteTable call in flight
    lib               \* last direct call of a lib/sheets function

vars == <<sheet, companies, pc, body, exactEventName, routeRow, tableStartIndex,
          insertPosition, response, reads, writes, apiFailed, postsLeft, ct, dt, lib>>

(***************************************************************************)
(* Strings.  TLC cannot take a string apart, so the string functions are   *)
(* tables over the strings the model uses.                                 *)
(***************************************************************************)
Undefined == "<undefined>"

\* String.prototype.trim
Trim(s) ==
    CASE s = " expo" -> "expo"
      [] s = " "     -> ""
      [] s = "  "    -> ""
      [] OTHER       -> s

\* String.prototype.toLowerCase
ToLowerCase(s) ==
    CASE s = "Expo"  -> "expo"
      [] s = "EXPO"  -> "expo"
      [] s = "Gala"  -> "gala"
      [] s = "GALA"  -> "gala"
      [] s = "Nope"  -> "nope"
      [] OTHER       -> s

\* x.trim().toLowerCase()
Normalize(s) == ToLowerCase(Trim(s))

\* JavaScript truthiness of a string-or-undefined value
Truthy(v) == v # Undefined /\ v # ""

At(data, i) == data[i + 1]

\* row[j] of a JavaScript array: undefined past the end
Cell(row, j) == IF j < Len(row) THEN row[j + 1] ELSE Undefined

Min(S) == CHOOSE x \in S : \A y \in S : x <= y

(***************************************************************************)
(* lib/sheets                                                              *)
(***************************************************************************)
RECURSIVE DropTrailingEmpty(_)
\* spreadsheets.values.get omits trailing empty cells of a row and trailing
\* empty rows of the range
DropTrailingEmpty(row) ==
    IF row = <<>> THEN <<>>
    ELSE IF row[Len(row)] = "" THEN DropTrailingEmpty(SubSeq(row, 1, Len(row) - 1))
    ELSE row

RECURSIVE DropTrailingRows(_)
DropTrailingRows(rows) ==
    IF rows = <<>> THEN <<>>
    ELSE IF rows[Len(rows)] = <<>> THEN DropTrailingRows(SubSeq(rows, 1, Len(rows) - 1))
    ELSE rows

\* getSheetData: response.data.values || []
getSheetData(grid) ==
    DropTrailingRows([i \in 1..Len(grid) |-> DropTrailingEmpty(grid[i])])

RECURSIVE ExactMatchFrom(_, _, _)
\* for (i ...) if (data[i] && data[i][0] === tableName) { tableStartIndex = i; break }
ExactMatchFrom(data, tableName, i) ==
    IF i >= Len(data) THEN -1
    ELSE IF Cell(At(data, i), 0) = tableName THEN i
    ELSE ExactMatchFrom(data, tableName, i + 1)

RECURSIVE CaseInsensitiveMatchFrom(_, _, _)
\* for (i ...) if (data[i] && data[i][0] &&
\*                 data[i][0].trim().toLowerCase() === normalizedTableName) ...
CaseInsensitiveMatchFrom(data, tableName, i) ==
    IF i >= Len(data) THEN -1
    ELSE IF /\ Truthy(Cell(At(data, i), 0))
            /\ Normalize(Cell(At(data, i), 0)) = Normalize(tableName) THEN i
    ELSE CaseInsensitiveMatchFrom(data, tableName, i + 1)

\* a scan with no preference for the exact match: the case-insensitive scan alone
FindTableStartNoExactPreference(data, tableName) ==
    CaseInsensitiveMatchFrom(data, tableName, 0)

\* "Try direct match first ... If no direct match, try case-insensitive match"
FindTableStart(data, tableName) ==
    LET exact == ExactMatchFrom(data, tableName, 0)
    IN  IF exact # -1 THEN exact ELSE CaseInsensitiveMatchFrom(data, tableName, 0)

RECURSIVE TableEndFrom(_, _)
\* for (i ...) if (data[i].length === 1 && data[i][0] !== '') { tableEndIndex = i; break }
TableEndFrom(data, i) ==
    IF i >= Len(data) THEN Len(data)
    ELSE IF Len(At(data, i)) = 1 /\ At(data, i)[1] # "" THEN i
    ELSE TableEndFrom(data, i + 1)

\* a scan for the end that stops at any row of at most one cell
FindTableEndAnyShortRow(data, start) ==
    LET S == {i \in (start + 1)..(Len(data) - 1) : Len(At(data, i)) <= 1}
    IN  IF S = {} THEN Len(data) ELSE Min(S)

\* "Find the table end index (next table start or end of data)"
FindTableEnd(data, start) == TableEndFrom(data, start + 1)

\* Array.prototype.slice(from, to) for 0 <= from
Slice(data, from, to) ==
    IF to <= from THEN <<>> ELSE SubSeq(data, from + 1, IF to > Len(data) THEN Len(data) ELSE to)

ErrEmpty == "Sheet is empty or does not exist"
ErrNoTable == "Table not found in sheet"

\* getTableData applied to the rows getSheetData returned
getTableData(data, tableName) ==
    LET start == FindTableStart(data, tableName)
        end   == FindTableEnd(data, start)
    IN  IF Len(data) = 0 THEN [ok |-> FALSE, error |-> ErrEmpty]
        ELSE IF start = -1 THEN [ok |-> FALSE, error |-> ErrNoTable]
        ELSE [ok |-> TRUE, tableStartIndex |-> start, tableEndIndex |-> end,
              tableData |-> Slice(data, start + 1, end)]

\* as InsertPlan, the row always placed at the end of the table
InsertPlanAtEnd(data, tableName) ==
    LET start == FindTableStart(data, tableName)
        end   == FindTableEnd(data, start)
    IN  IF Len(data) = 0 THEN [ok |-> FALSE, error |-> ErrEmpty]
        ELSE IF start = -1 THEN [ok |-> FALSE, error |-> ErrNoTable]
        ELSE [ok |-> TRUE, tableStartIndex |-> start, tableEndIndex |-> end,
              insertPosition |-> end]

\* as InsertPlan, without the check of the position against the table's end
InsertPlanNoEndCheck(data, tableName) ==
    LET start == FindTableStart(data, tableName)
        end   == FindTableEnd(data, start)
    IN  IF Len(data) = 0 THEN [ok |-> FALSE, error |-> ErrEmpty]
        ELSE IF start = -1 THEN [ok |-> FALSE, error |-> ErrNoTable]
        ELSE [ok |-> TRUE, tableStartIndex |-> start, tableEndIndex |-> end,
              insertPosition |-> start + 3]

\* addToTable up to "Final insert position": where the row will go
InsertPlan(data, tableName) ==
    LET start == FindTableStart(data, tableName)
        end   == FindTableEnd(data, start)
    IN  IF Len(data) = 0 THEN [ok |-> FALSE, error |-> ErrEmpty]
        ELSE IF start = -1 THEN [ok |-> FALSE, error |-> ErrNoTable]
        ELSE [ok |-> TRUE, tableStartIndex |-> start, tableEndIndex |-> end,
              insertPosition |-> IF start + 3 >= end THEN end ELSE start + 3]

\* stringValue: value?.toString() || ''
StringValue(v) == IF v = Undefined THEN "" ELSE v

CellData(rowData) == [j \in 1..Len(rowData) |-> StringValue(rowData[j])]

\* batchUpdate [insertDimension ROWS at position, updateCells of that row].
\* The grid has empty rows below the data, so a position past the data
\* leaves empty rows in between.
InsertRowAt(grid, position, cells) ==
    IF position <= Len(grid)
    THEN SubSeq(grid, 1, position) \o <<cells>> \o SubSeq(grid, position + 1, Len(grid))
    ELSE grid \o [k \in 1..(position - Len(grid)) |-> <<>>] \o <<cells>>

\* values.append: the rows go below the last row that holds data
AppendRows(grid, rows) == getSheetData(grid) \o rows

\* batchUpdate deleteDimension ROWS [startIndex, endIndex)
DeleteRows(grid, startIndex, endIndex) ==
    SubSeq(grid, 1, IF startIndex > Len(grid) THEN Len(grid) ELSE startIndex)
    \o SubSeq(grid, endIndex + 1, Len(grid))

(***************************************************************************)
(* route.ts: the pure parts of POST                                        *)
(***************************************************************************)
Fields == {"companyName", "eventName", "name", "phone", "email", "gender", "college",
           "status", "nationalId", "age", "university", "level", "faculty"}

\* the fields of "Validate required fields" (route.ts:35); level is not among them
RequiredBodyFields == Fields \ {"companyName", "eventName", "level"}

\* decodeURIComponent throws URIError on a malformed escape
DecodeThrows(v) == v = "%zz"

\* decodeURIComponent(v): the argument is converted to a string first
decodeURIComponent(v) ==
    CASE v = Undefined -> "undefined"
      [] v = "ac%6De"  -> "acme"
      [] OTHER         -> v

\* emailRegex = /^[^\s@]+@[^\s@]+\.[^\s@]+$/
EmailRegexTest(s) ==
    CASE s \in {"a@x.io", "b@x.io"}          -> TRUE
      [] s \in {"a@x", "a b@x.io", "ax.io"}  -> FALSE
      [] OTHER                               -> FALSE

\* phoneRegex = /^\d{10,15}$/
PhoneRegexTest(s) ==
    CASE s \in {"0100000001", "0100000002", "123456789012345"}  -> TRUE
      [] s \in {"010000001", "1234567890123456", "01000o0001"}  -> FALSE
      [] OTHER                                                  -> FALSE

\* /^\d+$/
AgeRegexTest(s) ==
    CASE s \in {"21", "0"}           -> TRUE
      [] s \in {"2x", "-1", "21.5"}  -> FALSE
      [] OTHER                       -> FALSE

NoResponse == [status |-> 0, message |-> ""]
Answer(code, msg) == [status |-> code, message |-> msg]
Success == Answer(200, "Registration successful")
AllFieldsRequired == Answer(400, "All fields are required")
InvalidEmail == Answer(400, "Invalid email format")
InvalidPhone == Answer(400, "Invalid phone number format")
InvalidAge == Answer(400, "Age must be a number")
CompanyNotFound == Answer(404, "Company not found")
CompanyDisabled == Answer(403, "Company is disabled, registration is not available")
EventNotFound == Answer(404, "Event not found")
EventDataNotFound == Answer(404, "Event data not found")
EventDisabled == Answer(403, "Event registration is currently disabled")
AlreadyRegistered == Answer(400, "You are already registered for this event")
FailedToProcess == Answer(500, "Failed to process registration")
FailedToRegister == Answer(500, "Failed to register for event")

companyNameOf(b) == decodeURIComponent(b.companyName)
eventNameOf(b) == decodeURIComponent(b.eventName)

RequiredFieldsPresent(b) ==
    /\ Truthy(companyNameOf(b))
    /\ Truthy(eventNameOf(b))
    /\ \A f \in RequiredBodyFields : Truthy(b[f])

\* the validation with the phone checked before the email
ValidatePhoneBeforeEmail(b) ==
    IF DecodeThrows(b.companyName) \/ DecodeThrows(b.eventName) THEN FailedToRegister
    ELSE IF ~RequiredFieldsPresent(b) THEN AllFieldsRequired
    ELSE IF ~PhoneRegexTest(b.phone) THEN InvalidPhone
    ELSE IF ~EmailRegexTest(b.email) THEN InvalidEmail
    ELSE IF ~AgeRegexTest(b.age) THEN InvalidAge
    ELSE NoResponse

\* route.ts:8-82: the answer of the validation, NoResponse when it passes
Validate(b) ==
    IF DecodeThrows(b.companyName) \/ DecodeThrows(b.eventName) THEN FailedToRegister
    ELSE IF ~RequiredFieldsPresent(b) THEN AllFieldsRequired
    ELSE IF ~EmailRegexTest(b.email) THEN InvalidEmail
    ELSE IF ~PhoneRegexTest(b.phone) THEN InvalidPhone
    ELSE IF ~AgeRegexTest(b.age) THEN InvalidAge
    ELSE NoResponse

RECURSIVE RouteExactFrom(_, _, _)
\* route.ts:123-129
RouteExactFrom(sheetData, eventName, i) ==
    IF i >= Len(sheetData) THEN -1
    ELSE IF Len(At(sheetData, i)) = 1 /\ At(sheetData, i)[1] = eventName THEN i
    ELSE RouteExactFrom(sheetData, eventName, i + 1)

RECURSIVE RouteCaseInsensitiveFrom(_, _, _)
\* route.ts:145-153
RouteCaseInsensitiveFrom(sheetData, eventName, i) ==
    IF i >= Len(sheetData) THEN -1
    ELSE IF /\ Len(At(sheetData, i)) = 1
            /\ Truthy(At(sheetData, i)[1])
            /\ Normalize(At(sheetData, i)[1]) = Normalize(eventName) THEN i
    ELSE RouteCaseInsensitiveFrom(sheetData, eventName, i + 1)

\* the row of the event's marker in sheetData, -1 when exactEventName stays null
ResolveEventRow(sheetData, eventName) ==
    LET exact == RouteExactFrom(sheetData, eventName, 0)
    IN  IF exact # -1 /\ Truthy(eventName) THEN exact
        ELSE RouteCaseInsensitiveFrom(sheetData, eventName, 0)

RECURSIVE FindCompanyFrom(_, _, _)
\* companies.find(row => row[1] === companyName) over companiesData.slice(1)
FindCompanyFrom(companiesData, companyName, i) ==
    IF i >= Len(companiesData) THEN -1
    ELSE IF Cell(At(companiesData, i), 1) = companyName THEN i
    ELSE FindCompanyFrom(companiesData, companyName, i + 1)

\* a status check that takes an empty status cell as disabled
IsCompanyDisabledEmptyIsDisabled(companiesData, companyName) ==
    LET i == FindCompanyFrom(companiesData, companyName, 1)
    IN  i # -1 /\ ~Truthy(Cell(At(companiesData, i), 5))

\* route.ts:101-115
IsCompanyDisabled(companiesData, companyName) ==
    LET i == FindCompanyFrom(companiesData, companyName, 1)
        status == IF Truthy(Cell(At(companiesData, i), 5))
                  THEN Cell(At(companiesData, i), 5) ELSE "enabled"
    IN  i # -1 /\ status = "disabled"

RECURSIVE FindIndexFrom(_, _, _)
\* headers.findIndex(h => h === value)
FindIndexFrom(headers, value, j) ==
    IF j >= Len(headers) THEN -1
    ELSE IF headers[j + 1] = value THEN j
    ELSE FindIndexFrom(headers, value, j + 1)

\* route.ts:180-192
IsEventDisabled(tableData) ==
    LET statusIndex == FindIndexFrom(tableData[1], "EventStatus", 0)
    IN  /\ statusIndex # -1
        /\ Len(tableData) > 1
        /\ Cell(tableData[2], statusIndex) = "disabled"

\* route.ts:196-201: registrationData.find(row => row[2] === email || row[1] === phone)
ExistingRegistration(tableData, b) ==
    \E k \in 2..Len(tableData) :
        Cell(tableData[k], 2) = b.email \/ Cell(tableData[k], 1) = b.phone

\* new Date().toISOString()
RegistrationDate == "2025-01-01T00:00:00.000Z"

\* route.ts:218-232: the rowData handed to addToTable
RegistrationRow(b) ==
    <<b.name, b.phone, b.email, b.gender, b.college, b.status, b.nationalId,
      RegistrationDate, "", b.age, b.university,
      IF Truthy(b.level) THEN b.level ELSE "", b.faculty>>

(***************************************************************************)
(* The inputs of the model                                                 *)
(***************************************************************************)
Requests == {1, 2}

\* the sheet of the one company that has a sheet
CompanySheetName == "acme"

\* header and settings row of an event's table; the registration columns are
\* 0..12 (route.ts:218-232), the event's own columns follow
Headers == <<"Name", "Phone", "Email", "Gender", "College", "Status", "National ID",
             "Registration Date", "Image", "Age", "University", "Level", "Faculty",
             "EventStatus">>
SettingsRow(eventStatus) == <<"", "", "", "", "", "", "", "", "img", "", "", "", "", eventStatus>>

EventTable(name, eventStatus) == <<<<name>>, Headers, SettingsRow(eventStatus)>>

BaseBody ==
    [companyName |-> "acme", eventName |-> "Expo", name |-> "nm", phone |-> "0100000001",
     email |-> "a@x.io", gender |-> "male", college |-> "eng", status |-> "student",
     nationalId |-> "nid", age |-> "21", university |-> "uni", level |-> "3",
     faculty |-> "fac"]

\* well-formed bodies: two events, two names (one equal to an event's name),
\* two phones, two emails
MainBodies ==
    {[BaseBody EXCEPT !.eventName = e, !.name = n, !.phone = p, !.email = m] :
        e \in {"Expo", "Gala"}, n \in {"nm", "Gala"},
        p \in {"0100000001", "0100000002"}, m \in {"a@x.io", "b@x.io"}}

\* the bodies of the concurrent clients: two events, two applicants
ConcurrentBodies ==
    {b \in MainBodies : /\ b.name = "nm"
                        /\ (b.phone = "0100000001") = (b.email = "a@x.io")}

\* the other values a field of the body may carry
Alternatives(f) ==
    CASE f = "companyName" -> {Undefined, "", "ac%6De", "%zz", "ghost"}
      [] f = "eventName"   -> {Undefined, "", " expo", "EXPO", "Gala", "Nope"}
      [] f = "name"        -> {Undefined, "", "Gala"}
      [] f = "phone"       -> {Undefined, "", "0100000002", "010000001", "01000o0001"}
      [] f = "email"       -> {Undefined, "", "b@x.io", "a@x", "a b@x.io"}
      [] f = "age"         -> {Undefined, "", "2x", "0"}
      [] OTHER             -> {Undefined, ""}

AllAlternatives == UNION {Alternatives(f) : f \in Fields}

\* every body that differs from BaseBody in at most two fields
BroadBodies ==
    {[f \in Fields |-> IF f = x[1] THEN x[2] ELSE IF f = x[3] THEN x[4] ELSE BaseBody[f]] :
        x \in {y \in Fields \X AllAlternatives \X Fields \X (AllAlternatives \cup {"="}) :
                  /\ y[2] \in Alternatives(y[1])
                  /\ y[4] \in Alternatives(y[3]) \cup {"="}
                  /\ (y[4] = "=" => y[3] = y[1])}}

CompaniesHeader == <<"id", "name", "username", "password", "image", "status">>
CompanyRow(name, status) == DropTrailingEmpty(<<"1", name, "user", "pw", "img", status>>)

\* the 'companies' sheet: acme enabled, disabled, with an empty status cell,
\* absent, only in the row read as the header, or listed twice
CompaniesSheets ==
    {<<CompaniesHeader, CompanyRow("acme", "enabled")>>,
     <<CompaniesHeader, CompanyRow("acme", "disabled")>>,
     <<CompaniesHeader, CompanyRow("acme", "")>>,
     <<CompaniesHeader, CompanyRow("other", "disabled")>>,
     <<CompanyRow("acme", "disabled")>>,
     <<CompaniesHeader, CompanyRow("acme", ""), CompanyRow("acme", "disabled")>>,
     <<CompaniesHeader, CompanyRow("acme", "disabled"), CompanyRow("acme", "enabled")>>}

MaxRows == 12

(***************************************************************************)
(* POST /api/events/register, one action per await                         *)
(***************************************************************************)
Finish(r, answer) ==
    /\ pc' = [pc EXCEPT ![r] = "done"]
    /\ response' = [response EXCEPT ![r] = answer]

Goto(r, label) ==
    /\ pc' = [pc EXCEPT ![r] = label]
    /\ UNCHANGED response

\* route.ts:8-82: parse the body and validate it
Receive(r, b) ==
    /\ pc[r] \in {"idle", "done"}
    /\ postsLeft > 0
    /\ postsLeft' = postsLeft - 1
    /\ body' = [body EXCEPT ![r] = b]
    /\ exactEventName' = [exactEventName EXCEPT ![r] = Undefined]
    /\ routeRow' = [routeRow EXCEPT ![r] = -1]
    /\ tableStartIndex' = [tableStartIndex EXCEPT ![r] = -1]
    /\ insertPosition' = [insertPosition EXCEPT ![r] = -1]
    /\ reads' = [reads EXCEPT ![r] = 0]
    /\ writes' = [writes EXCEPT ![r] = 0]
    /\ apiFailed' = [apiFailed EXCEPT ![r] = FALSE]
    /\ pc' = [pc EXCEPT ![r] = IF Validate(b) = NoResponse THEN "getSheetData" ELSE "done"]
    /\ response' = [response EXCEPT ![r] = Validate(b)]
    /\ UNCHANGED <<sheet, companies, ct, dt, lib>>

\* route.ts:88-98 and 117-154: read the company's sheet, resolve the event in it
ReadCompanySheet(r, ok) ==
    /\ pc[r] = "getSheetData"
    /\ apiFailed' = [apiFailed EXCEPT ![r] = @ \/ ~ok]
    /\ reads' = [reads EXCEPT ![r] = @ + 1]
    /\ LET sheetData == getSheetData(sheet)
           row == ResolveEventRow(sheetData, eventNameOf(body[r]))
       IN  IF ~ok \/ companyNameOf(body[r]) # CompanySheetName \/ Len(sheetData) = 0
           THEN /\ Finish(r, CompanyNotFound)
                /\ UNCHANGED <<exactEventName, routeRow>>
           ELSE /\ Goto(r, "getCompanies")
                /\ routeRow' = [routeRow EXCEPT ![r] = row]
                /\ exactEventName' = [exactEventName EXCEPT ![r] =
                       IF row = -1 THEN Undefined ELSE At(sheetData, row)[1]]
    /\ UNCHANGED <<sheet, companies, body, tableStartIndex, insertPosition, writes,
                   postsLeft, ct, dt, lib>>

\* route.ts:100-115 and 156-163: the company's status, then the event found or not
ReadCompanies(r, ok) ==
    /\ pc[r] = "getCompanies"
    /\ apiFailed' = [apiFailed EXCEPT ![r] = @ \/ ~ok]
    /\ reads' = [reads EXCEPT ![r] = @ + 1]
    /\ IF ~ok THEN Finish(r, CompanyNotFound)
       ELSE IF IsCompanyDisabled(getSheetData(companies), companyNameOf(body[r]))
       THEN Finish(r, CompanyDisabled)
       ELSE IF exactEventName[r] = Undefined THEN Finish(r, EventNotFound)
       ELSE Goto(r, "getTableData")
    /\ UNCHANGED <<sheet, companies, body, exactEventName, routeRow, tableStartIndex,
                   insertPosition, writes, postsLeft, ct, dt, lib>>

\* route.ts:170-208: getTableData, then the event's status and the duplicate check
ReadTable(r, ok) ==
    /\ pc[r] = "getTableData"
    /\ apiFailed' = [apiFailed EXCEPT ![r] = @ \/ ~ok]
    /\ reads' = [reads EXCEPT ![r] = @ + 1]
    /\ LET got == getTableData(getSheetData(sheet), exactEventName[r])
       IN  IF ~ok \/ ~got.ok
           THEN /\ Finish(r, FailedToProcess)
                /\ UNCHANGED tableStartIndex
           ELSE /\ tableStartIndex' = [tableStartIndex EXCEPT ![r] = got.tableStartIndex]
                /\ IF Len(got.tableData) = 0 THEN Finish(r, EventDataNotFound)
                   ELSE IF IsEventDisabled(got.tableData) THEN Finish(r, EventDisabled)
                   ELSE IF ExistingRegistration(got.tableData, body[r])
                   THEN Finish(r, AlreadyRegistered)
                   ELSE Goto(r, "addToTable")
    /\ UNCHANGED <<sheet, companies, body, exactEventName, routeRow, insertPosition,
                   writes, postsLeft, ct, dt, lib>>

\* addToTable, part_000:230-327: read the sheet (and the spreadsheet's sheet list)
\* and compute the insert position
AddToTableRead(r, ok) ==
    /\ pc[r] = "addToTable"
    /\ apiFailed' = [apiFailed EXCEPT ![r] = @ \/ ~ok]
    /\ reads' = [reads EXCEPT ![r] = @ + 2]
    /\ LET plan == InsertPlan(getSheetData(sheet), exactEventName[r])
       IN  IF ~ok \/ ~plan.ok
           THEN /\ Finish(r, FailedToProcess)
                /\ UNCHANGED <<tableStartIndex, insertPosition>>
           ELSE /\ Goto(r, "batchUpdate")
                /\ tableStartIndex' = [tableStartIndex EXCEPT ![r] = plan.tableStartIndex]
                /\ insertPosition' = [insertPosition EXCEPT ![r] = plan.insertPosition]
    /\ UNCHANGED <<sheet, companies, body, exactEventName, routeRow, writes, postsLeft,
                   ct, dt, lib>>

\* as AddToTableInsert, the insert position computed from the sheet as it is now
AddToTableInsertAtFreshPosition(r, ok) ==
    /\ pc[r] = "batchUpdate"
    /\ apiFailed' = [apiFailed EXCEPT ![r] = @ \/ ~ok]
    /\ Len(sheet) < MaxRows /\ insertPosition[r] < MaxRows
    /\ LET plan == InsertPlan(getSheetData(sheet), exactEventName[r])
       IN  IF ok /\ plan.ok
           THEN /\ sheet' = InsertRowAt(sheet, plan.insertPosition,
                                        CellData(RegistrationRow(body[r])))
                /\ writes' = [writes EXCEPT ![r] = @ + 1]
                /\ Finish(r, Success)
           ELSE /\ Finish(r, FailedToProcess)
                /\ UNCHANGED <<sheet, writes>>
    /\ UNCHANGED <<companies, body, exactEventName, routeRow, tableStartIndex,
                   insertPosition, reads, postsLeft, ct, dt, lib>>

\* as AddToTableInsert, the duplicate check repeated on the sheet as it is now
AddToTableInsertRechecked(r, ok) ==
    /\ pc[r] = "batchUpdate"
    /\ apiFailed' = [apiFailed EXCEPT ![r] = @ \/ ~ok]
    /\ Len(sheet) < MaxRows /\ insertPosition[r] < MaxRows
    /\ LET got == getTableData(getSheetData(sheet), exactEventName[r])
       IN  IF ~ok
           THEN /\ Finish(r, FailedToProcess)
                /\ UNCHANGED <<sheet, writes>>
           ELSE IF got.ok /\ ExistingRegistration(got.tableData, body[r])
           THEN /\ Finish(r, AlreadyRegistered)
                /\ UNCHANGED <<sheet, writes>>
           ELSE /\ sheet' = InsertRowAt(sheet, insertPosition[r],
                                        CellData(RegistrationRow(body[r])))
                /\ writes' = [writes EXCEPT ![r] = @ + 1]
                /\ Finish(r, Success)
    /\ UNCHANGED <<companies, body, exactEventName, routeRow, tableStartIndex,
                   insertPosition, reads, postsLeft, ct, dt, lib>>

\* as AddToTableInsert, success answered whether or not the batchUpdate completed
AddToTableInsertAnswersSuccessAnyway(r, ok) ==
    /\ pc[r] = "batchUpdate"
    /\ apiFailed' = [apiFailed EXCEPT ![r] = @ \/ ~ok]
    /\ Len(sheet) < MaxRows /\ insertPosition[r] < MaxRows
    /\ IF ok
       THEN /\ sheet' = InsertRowAt(sheet, insertPosition[r],
                                    CellData(RegistrationRow(body[r])))
            /\ writes' = [writes EXCEPT ![r] = @ + 1]
       ELSE UNCHANGED <<sheet, writes>>
    /\ Finish(r, Success)
    /\ UNCHANGED <<companies, body, exactEventName, routeRow, tableStartIndex,
                   insertPosition, reads, postsLeft, ct, dt, lib>>

\* addToTable, part_000:332-381, and route.ts:234-247: insert the row, answer success
AddToTableInsert(r, ok) ==
    /\ pc[r] = "batchUpdate"
    /\ apiFailed' = [apiFailed EXCEPT ![r] = @ \/ ~ok]
    /\ Len(sheet) < MaxRows /\ insertPosition[r] < MaxRows
    /\ IF ok
       THEN /\ sheet' = InsertRowAt(sheet, insertPosition[r],
                                    CellData(RegistrationRow(body[r])))
            /\ writes' = [writes EXCEPT ![r] = @ + 1]
            /\ Finish(r, Success)
       ELSE /\ Finish(r, FailedToProcess)
            /\ UNCHANGED <<sheet, writes>>
    /\ UNCHANGED <<companies, body, exactEventName, routeRow, tableStartIndex,
                   insertPosition, reads, postsLeft, ct, dt, lib>>

(***************************************************************************)
(* createTable and deleteTable, one action per await                       *)
(***************************************************************************)
Creators == {1, 2}
TableNames == {"Expo", "Gala"}

CtGoto(c, label, name) ==
    ct' = [ct EXCEPT !.call[c] = [pc |-> label, tableName |-> name]]

\* part_000:133-140: read the sheet, throw when a row starts with tableName
CreateTableRead(c, name, ok) ==
    /\ ct.call[c].pc = "idle"
    /\ ct.left > 0
    /\ LET data == getSheetData(sheet)
       IN  IF ok /\ ~(\E i \in 0..(Len(data) - 1) : Cell(At(data, i), 0) = name)
           THEN ct' = [left |-> ct.left - 1,
                       call |-> [ct.call EXCEPT ![c] = [pc |-> "appendName", tableName |-> name]]]
           ELSE ct' = [ct EXCEPT !.left = @ - 1]
    /\ UNCHANGED <<sheet, companies, pc, body, apiFailed, exactEventName, routeRow,
                   tableStartIndex, insertPosition, response, reads, writes, postsLeft, dt, lib>>

\* part_000:143: appendToSheet(sheetName, [[tableName]])
CreateTableAppendName(c, ok) ==
    /\ ct.call[c].pc = "appendName"
    /\ Len(sheet) < MaxRows
    /\ IF ok
       THEN /\ sheet' = AppendRows(sheet, <<<<ct.call[c].tableName>>>>)
            /\ CtGoto(c, "appendHeaders", ct.call[c].tableName)
       ELSE /\ CtGoto(c, "idle", "")
            /\ UNCHANGED sheet
    /\ UNCHANGED <<companies, pc, body, apiFailed, exactEventName, routeRow,
                   tableStartIndex, insertPosition, response, reads, writes, postsLeft, dt, lib>>

\* as CreateTableAppendHeaders, the header row put directly below the call's
\* own name row
CreateTableHeadersBelowName(c, ok) ==
    /\ ct.call[c].pc = "appendHeaders"
    /\ Len(sheet) < MaxRows
    /\ LET own == {i \in 0..(Len(sheet) - 1) : At(sheet, i) = <<ct.call[c].tableName>>}
       IN  IF ok /\ own # {}
           THEN sheet' = InsertRowAt(sheet, Min(own) + 1, Headers)
           ELSE UNCHANGED sheet
    /\ CtGoto(c, "idle", "")
    /\ UNCHANGED <<companies, pc, body, apiFailed, exactEventName, routeRow,
                   tableStartIndex, insertPosition, response, reads, writes, postsLeft, dt, lib>>

\* part_000:146: appendToSheet(sheetName, [headers])
CreateTableAppendHeaders(c, ok) ==
    /\ ct.call[c].pc = "appendHeaders"
    /\ Len(sheet) < MaxRows
    /\ IF ok
       THEN sheet' = AppendRows(sheet, <<Headers>>)
       ELSE UNCHANGED sheet
    /\ CtGoto(c, "idle", "")
    /\ UNCHANGED <<companies, pc, body, apiFailed, exactEventName, routeRow,
                   tableStartIndex, insertPosition, response, reads, writes, postsLeft, dt, lib>>

DtIdle(left) == [pc |-> "idle", startIndex |-> -1, endIndex |-> -1, left |-> left]

\* part_000:392-424: read the sheet, find the rows of the table
DeleteTableRead(name, ok) ==
    /\ dt.pc = "idle"
    /\ dt.left > 0
    /\ LET data == getSheetData(sheet)
           start == ExactMatchFrom(data, name, 0)
       IN  IF ok /\ start # -1
           THEN dt' = [pc |-> "deleteDimension", startIndex |-> start,
                       endIndex |-> FindTableEnd(data, start), left |-> dt.left - 1]
           ELSE dt' = DtIdle(dt.left - 1)
    /\ UNCHANGED <<sheet, companies, pc, body, apiFailed, exactEventName, routeRow,
                   tableStartIndex, insertPosition, response, reads, writes, postsLeft, ct, lib>>

\* part_000:427-443: deleteDimension ROWS [tableStartIndex, tableEndIndex)
DeleteTableDelete(ok) ==
    /\ dt.pc = "deleteDimension"
    /\ IF ok
       THEN sheet' = DeleteRows(sheet, dt.startIndex, dt.endIndex)
       ELSE UNCHANGED sheet
    /\ dt' = DtIdle(dt.left)
    /\ UNCHANGED <<companies, pc, body, apiFailed, exactEventName, routeRow,
                   tableStartIndex, insertPosition, response, reads, writes, postsLeft, ct, lib>>

(***************************************************************************)
(* Direct calls of getTableData and addToTable on an arbitrary sheet       *)
(***************************************************************************)
MaxLen == 4

LibRows == {<<"Expo">>, <<" expo">>, <<"Gala">>, <<"Expo", "x">>, <<"", "x">>, <<>>}
LibNames == {"Expo", "EXPO", " ", "Nope"}
LibRowData == {<<"nm", "p">>, <<"Gala">>, <<"x", Undefined>>}

LibSheets ==
    {s \in UNION {[1..n -> LibRows] : n \in 0..MaxLen} : getSheetData(s) = s}

NoCall == [op |-> "none", tableName |-> "", rowData |-> <<>>, before |-> <<>>,
           ok |-> FALSE, error |-> "", tableStartIndex |-> -1, tableEndIndex |-> -1,
           insertPosition |-> -1, tableData |-> <<>>]

\* const tableData = await getTableData(sheetName, tableName)
CallGetTableData(t) ==
    /\ lib.op = "none" \/ (lib.op = "addToTable" /\ lib.tableName = t)
    /\ LET got == getTableData(getSheetData(sheet), t)
       IN  lib' = IF got.ok
                  THEN [NoCall EXCEPT !.op = "getTableData", !.tableName = t,
                            !.before = sheet, !.ok = TRUE,
                            !.tableStartIndex = got.tableStartIndex,
                            !.tableEndIndex = got.tableEndIndex,
                            !.tableData = got.tableData]
                  ELSE [NoCall EXCEPT !.op = "getTableData", !.tableName = t,
                            !.before = sheet, !.error = got.error]
    /\ UNCHANGED <<sheet, companies, pc, body, apiFailed, exactEventName, routeRow,
                   tableStartIndex, insertPosition, response, reads, writes, postsLeft, ct, dt>>

\* await addToTable(sheetName, tableName, rowData), nothing else running
CallAddToTable(t, rowData) ==
    /\ lib.op = "none"
    /\ LET plan == InsertPlan(getSheetData(sheet), t)
       IN  IF plan.ok
           THEN /\ sheet' = InsertRowAt(sheet, plan.insertPosition, CellData(rowData))
                /\ lib' = [NoCall EXCEPT !.op = "addToTable", !.tableName = t,
                              !.rowData = rowData, !.before = sheet, !.ok = TRUE,
                              !.tableStartIndex = plan.tableStartIndex,
                              !.tableEndIndex = plan.tableEndIndex,
                              !.insertPosition = plan.insertPosition]
           ELSE /\ UNCHANGED sheet
                /\ lib' = [NoCall EXCEPT !.op = "addToTable", !.tableName = t,
                              !.rowData = rowData, !.before = sheet, !.error = plan.error]
    /\ UNCHANGED <<companies, pc, body, apiFailed, exactEventName, routeRow,
                   tableStartIndex, insertPosition, response, reads, writes, postsLeft, ct, dt>>

(***************************************************************************)
(* Specifications                                                          *)
(***************************************************************************)
MaxPosts == 2
MaxPostsSeq == 3
MaxCreates == 1
MaxDeletes == 1

InitRequests ==
    /\ pc = [r \in Requests |-> "idle"]
    /\ body = [r \in Requests |-> BaseBody]
    /\ exactEventName = [r \in Requests |-> Undefined]
    /\ routeRow = [r \in Requests |-> -1]
    /\ tableStartIndex = [r \in Requests |-> -1]
    /\ insertPosition = [r \in Requests |-> -1]
    /\ response = [r \in Requests |-> NoResponse]
    /\ reads = [r \in Requests |-> 0]
    /\ writes = [r \in Requests |-> 0]
    /\ apiFailed = [r \in Requests |-> FALSE]

CtIdle(left) == [left |-> left, call |-> [c \in Creators |-> [pc |-> "idle", tableName |-> ""]]]

\* Spec: everything runs concurrently
Init ==
    /\ InitRequests
    /\ sheet = EventTable("Expo", "enabled") \o EventTable("Gala", "enabled")
    /\ companies = <<CompaniesHeader, CompanyRow("acme", "enabled")>>
    /\ postsLeft = MaxPosts
    /\ ct = CtIdle(MaxCreates)
    /\ dt = DtIdle(MaxDeletes)
    /\ lib = NoCall

Next ==
    \/ \E r \in Requests, b \in ConcurrentBodies : Receive(r, b)
    \/ \E r \in Requests, ok \in BOOLEAN : ReadCompanySheet(r, ok)
    \/ \E r \in Requests, ok \in BOOLEAN : ReadCompanies(r, ok)
    \/ \E r \in Requests, ok \in BOOLEAN : ReadTable(r, ok)
    \/ \E r \in Requests, ok \in BOOLEAN : AddToTableRead(r, ok)
    \/ \E r \in Requests, ok \in BOOLEAN : AddToTableInsert(r, ok)
    \/ \E name \in TableNames, ok \in BOOLEAN : CreateTableRead(1, name, ok)
    \/ \E ok \in BOOLEAN : CreateTableAppendName(1, ok)
    \/ \E ok \in BOOLEAN : CreateTableAppendHeaders(1, ok)
    \/ \E name \in TableNames, ok \in BOOLEAN : DeleteTableRead(name, ok)
    \/ \E ok \in BOOLEAN : DeleteTableDelete(ok)

Spec == Init /\ [][Next]_vars

\* SpecSeq: one call at a time (a call starts only when no other is in flight)
NoneInFlight ==
    /\ \A r \in Requests : pc[r] \in {"idle", "done"}
    /\ \A c \in Creators : ct.call[c].pc = "idle"
    /\ dt.pc = "idle"

InitSeq ==
    /\ InitRequests
    /\ sheet = EventTable("Expo", "enabled")
    /\ companies = <<CompaniesHeader, CompanyRow("acme", "enabled")>>
    /\ postsLeft = MaxPostsSeq
    /\ ct = CtIdle(MaxCreates)
    /\ dt = DtIdle(0)
    /\ lib = NoCall

NextSeq ==
    \/ \E b \in MainBodies : NoneInFlight /\ Receive(1, b)
    \/ \E ok \in BOOLEAN : ReadCompanySheet(1, ok)
    \/ \E ok \in BOOLEAN : ReadCompanies(1, ok)
    \/ \E ok \in BOOLEAN : ReadTable(1, ok)
    \/ \E ok \in BOOLEAN : AddToTableRead(1, ok)
    \/ \E ok \in BOOLEAN : AddToTableInsert(1, ok)
    \/ \E name \in TableNames, ok \in BOOLEAN : NoneInFlight /\ CreateTableRead(1, name, ok)
    \/ \E ok \in BOOLEAN : CreateTableAppendName(1, ok)
    \/ \E ok \in BOOLEAN : CreateTableAppendHeaders(1, ok)

SpecSeq == InitSeq /\ [][NextSeq]_vars

\* SpecPost: one POST with any body, on any state of the two sheets (the last
\* sheet has an applicant named as the event that follows)
PostSheets ==
    {<<>>,
     EventTable("Expo", "enabled"),
     EventTable("Expo", "disabled"),
     <<<<"Expo">>, Headers>>,
     EventTable("Expo", "enabled") \o <<CellData(RegistrationRow(BaseBody))>>,
     EventTable("Expo", "enabled")
         \o <<CellData(RegistrationRow([BaseBody EXCEPT !.name = "Gala",
                                                        !.phone = "0100000003",
                                                        !.email = "c@x.io"])),
              CellData(RegistrationRow([BaseBody EXCEPT !.phone = "0100000004",
                                                        !.email = "d@x.io"]))>>
         \o EventTable("Gala", "disabled")}

InitPost ==
    /\ InitRequests
    /\ sheet \in PostSheets
    /\ companies \in CompaniesSheets
    /\ postsLeft = 1
    /\ ct = CtIdle(0)
    /\ dt = DtIdle(0)
    /\ lib = NoCall

NextPost ==
    \/ \E b \in BroadBodies : Receive(1, b)
    \/ \E ok \in BOOLEAN : ReadCompanySheet(1, ok)
    \/ \E ok \in BOOLEAN : ReadCompanies(1, ok)
    \/ \E ok \in BOOLEAN : ReadTable(1, ok)
    \/ \E ok \in BOOLEAN : AddToTableRead(1, ok)
    \/ \E ok \in BOOLEAN : AddToTableInsert(1, ok)

SpecPost == InitPost /\ [][NextPost]_vars

\* SpecLib: getTableData and addToTable called directly on every small sheet
InitLib ==
    /\ InitRequests
    /\ sheet \in LibSheets
    /\ companies = <<CompaniesHeader>>
    /\ postsLeft = 0
    /\ ct = CtIdle(0)
    /\ dt = DtIdle(0)
    /\ lib = NoCall

NextLib ==
    \/ \E t \in LibNames : CallGetTableData(t)
    \/ \E t \in LibNames, rowData \in LibRowData : CallAddToTable(t, rowData)

SpecLib == InitLib /\ [][NextLib]_vars

\* SpecCreate: createTable calls running concurrently on one sheet
MaxCreatesConcurrent == 2

\* an empty sheet, a sheet with one table, and that table with a registration
\* whose first cell is the other table name
CreateSheets ==
    {<<>>,
     EventTable("Expo", "enabled"),
     EventTable("Expo", "enabled")
         \o <<CellData(RegistrationRow([BaseBody EXCEPT !.name = "Gala"]))>>,
     EventTable("Expo", "enabled") \o <<CellData(RegistrationRow(BaseBody))>>}

InitCreate ==
    /\ InitRequests
    /\ sheet \in CreateSheets
    /\ companies = <<CompaniesHeader, CompanyRow("acme", "enabled")>>
    /\ postsLeft = 0
    /\ ct = CtIdle(MaxCreatesConcurrent)
    /\ dt = DtIdle(0)
    /\ lib = NoCall

NextCreate ==
    \/ \E c \in Creators, name \in TableNames, ok \in BOOLEAN : CreateTableRead(c, name, ok)
    \/ \E c \in Creators, ok \in BOOLEAN : CreateTableAppendName(c, ok)
    \/ \E c \in Creators, ok \in BOOLEAN : CreateTableAppendHeaders(c, ok)

SpecCreate == InitCreate /\ [][NextCreate]_vars

(***************************************************************************)
(* Claims about getTableData and addToTable (SpecLib)                      *)
(***************************************************************************)
\* rows i > s of data that have exactly one cell, and that cell non-empty
MarkersAfter(data, s) ==
    {i \in (s + 1)..(Len(data) - 1) : Len(At(data, i)) = 1 /\ At(data, i)[1] # ""}

\* C2: for every sheet and table name found at row s, getTableData returns
\* exactly the rows s+1 .. e-1 in order, e being the first row after s with
\* exactly one, non-empty, cell, or the sheet length when there is none.
C2_TableDataIsRowsBetweenMarkers ==
    (lib.op = "getTableData" /\ lib.ok) =>
        LET data == getSheetData(lib.before)
            s == lib.tableStartIndex
            e == IF MarkersAfter(data, s) = {} THEN Len(data) ELSE Min(MarkersAfter(data, s))
        IN  /\ Len(lib.tableData) = e - s - 1
            /\ \A k \in 1..(e - s - 1) : lib.tableData[k] = At(data, s + k)

\* C2, reached: a table with data rows, found below row 0 and followed by another marker
C2_Witness ==
    /\ lib.op = "getTableData" /\ lib.ok
    /\ lib.tableStartIndex > 0
    /\ Len(lib.tableData) >= 2
    /\ lib.tableEndIndex < Len(lib.before)

ExactRows(data, t) == {i \in 0..(Len(data) - 1) : Len(At(data, i)) >= 1 /\ At(data, i)[1] = t}

\* C3 as stated: the first exact match wins; otherwise the first row whose
\* trimmed, lower-cased first cell equals the trimmed, lower-cased tableName;
\* otherwise the call throws 'Table ... not found'.
C3_AsStated ==
    lib.op # "none" =>
        LET data == getSheetData(lib.before)
            t == lib.tableName
            Folded == {i \in 0..(Len(data) - 1) :
                          Len(At(data, i)) >= 1 /\ Normalize(At(data, i)[1]) = Normalize(t)}
        IN  IF ExactRows(data, t) # {}
            THEN lib.ok /\ lib.tableStartIndex = Min(ExactRows(data, t))
            ELSE IF Folded # {}
            THEN lib.ok /\ lib.tableStartIndex = Min(Folded)
            ELSE ~lib.ok /\ lib.error = ErrNoTable

\* C3 (amended): on a non-empty sheet the first exact match wins; otherwise
\* the first row whose first cell is non-empty and, trimmed and lower-cased,
\* equals the trimmed, lower-cased tableName; otherwise the call throws
\* 'Table ... not found'.  An empty sheet throws 'Sheet ... is empty or does
\* not exist'.
C3_ExactMatchPreferred ==
    lib.op # "none" =>
        LET data == getSheetData(lib.before)
            t == lib.tableName
            Folded == {i \in 0..(Len(data) - 1) :
                          /\ Len(At(data, i)) >= 1
                          /\ At(data, i)[1] # ""
                          /\ Normalize(At(data, i)[1]) = Normalize(t)}
        IN  IF Len(data) = 0
            THEN ~lib.ok /\ lib.error = ErrEmpty
            ELSE IF ExactRows(data, t) # {}
            THEN lib.ok /\ lib.tableStartIndex = Min(ExactRows(data, t))
            ELSE IF Folded # {}
            THEN lib.ok /\ lib.tableStartIndex = Min(Folded)
            ELSE ~lib.ok /\ lib.error = ErrNoTable

\* C3, reached: the exact match is taken although an earlier row matches case-insensitively
C3_Witness ==
    /\ lib.op = "addToTable" /\ lib.ok
    /\ At(lib.before, lib.tableStartIndex)[1] = lib.tableName
    /\ \E i \in 0..(lib.tableStartIndex - 1) :
          /\ Len(At(lib.before, i)) >= 1
          /\ Normalize(At(lib.before, i)[1]) = Normalize(lib.tableName)

(***************************************************************************)
(* Claims about the validation of a POST (SpecPost)                        *)
(***************************************************************************)
\* C8 as stated: a POST in which any field but level is absent or empty is
\* answered 400 'All fields are required' without a spreadsheet read or write
\* (bodies whose names decode).
C8_AsStated ==
    \A r \in Requests :
        (/\ pc[r] # "idle"
         /\ ~DecodeThrows(body[r].companyName) /\ ~DecodeThrows(body[r].eventName)
         /\ \E f \in Fields \ {"level"} : body[r][f] \in {Undefined, ""}) =>
            /\ pc[r] = "done"
            /\ response[r] = AllFieldsRequired
            /\ reads[r] = 0 /\ writes[r] = 0

PassedRequiredCheck(b) ==
    /\ ~DecodeThrows(b.companyName) /\ ~DecodeThrows(b.eventName)
    /\ RequiredFieldsPresent(b)

Rejected(r, answer) ==
    pc[r] = "done" /\ response[r] = answer /\ reads[r] = 0 /\ writes[r] = 0

\* C9: after the required-field check the route validates email, then phone,
\* then age; the first failing check answers 400 with its own message, and no
\* spreadsheet operation happens before all three have passed.
C9_ValidationOrder ==
    \A r \in Requests :
        (pc[r] # "idle" /\ PassedRequiredCheck(body[r])) =>
            LET emailOk == EmailRegexTest(body[r].email)
                phoneOk == PhoneRegexTest(body[r].phone)
                ageOk   == AgeRegexTest(body[r].age)
            IN  /\ ~emailOk => Rejected(r, InvalidEmail)
                /\ (emailOk /\ ~phoneOk) => Rejected(r, InvalidPhone)
                /\ (emailOk /\ phoneOk /\ ~ageOk) => Rejected(r, InvalidAge)
                /\ (reads[r] > 0 \/ writes[r] > 0) => (emailOk /\ phoneOk /\ ageOk)

\* C9, reached: email and phone are both malformed and the answer is the email's
C9_Witness ==
    \E r \in Requests :
        /\ Rejected(r, InvalidEmail)
        /\ PassedRequiredCheck(body[r])
        /\ ~PhoneRegexTest(body[r].phone)

\* a row after the header whose second cell is the company and sixth is 'disabled'
HasDisabledRow(companiesData, companyName) ==
    \E i \in 1..(Len(companiesData) - 1) :
        /\ Cell(At(companiesData, i), 1) = companyName
        /\ Cell(At(companiesData, i), 5) = "disabled"

\* C10 as stated: a registration with every field present and well-formed,
\* for a company that has a 'disabled' row in 'companies', is answered 403 and
\* inserts nothing (no spreadsheet call failing).
C10_AsStated ==
    \A r \in Requests :
        (/\ pc[r] = "done"
         /\ \A f \in Fields : Truthy(body[r][f])
         /\ Validate(body[r]) = NoResponse
         /\ ~apiFailed[r]
         /\ HasDisabledRow(companies, companyNameOf(body[r]))) =>
            response[r] = CompanyDisabled /\ writes[r] = 0

\* the first row after the header whose second cell is the company
FirstCompanyRows(companiesData, companyName) ==
    {i \in 1..(Len(companiesData) - 1) :
        /\ Cell(At(companiesData, i), 1) = companyName
        /\ \A j \in 1..(i - 1) : Cell(At(companiesData, j), 1) # companyName}

\* C10 (amended): when the request passes validation, the company's own
\* sheet exists and is not empty and no spreadsheet call fails, the answer is
\* 403 'Company is disabled ...' exactly when the first row of 'companies'
\* after its header with the company in its second cell has 'disabled' in
\* its sixth, and then the request goes no further and inserts nothing; an
\* empty status cell, or no row, is treated as enabled.
C10_DisabledCompanyRejected ==
    \A r \in Requests :
        (/\ pc[r] # "idle"
         /\ Validate(body[r]) = NoResponse
         /\ ~apiFailed[r]
         /\ companyNameOf(body[r]) = CompanySheetName
         /\ Len(getSheetData(sheet)) > 0) =>
            LET disabled == \E i \in FirstCompanyRows(companies, companyNameOf(body[r])) :
                                Cell(At(companies, i), 5) = "disabled"
            IN  /\ pc[r] = "done" => (disabled <=> response[r] = CompanyDisabled)
                /\ disabled => /\ pc[r] \in {"getSheetData", "getCompanies", "done"}
                               /\ writes[r] = 0

\* C10, reached: the company is disabled and the registration was answered 403
C10_Witness ==
    \E r \in Requests :
        /\ pc[r] = "done" /\ response[r] = CompanyDisabled
        /\ reads[r] = 2 /\ writes[r] = 0
        /\ HasDisabledRow(companies, companyNameOf(body[r]))

(***************************************************************************)
(* Claims about registrations made one after the other (SpecSeq)           *)
(***************************************************************************)
NextMarker(data, m) ==
    IF MarkersAfter(data, m) = {} THEN Len(data) ELSE Min(MarkersAfter(data, m))

\* C1 as stated: with one call at a time, a POST that answers success has
\* inserted exactly one row, that row lies strictly after the name row the
\* route resolved and before the next single-cell marker row (or the end), and
\* all other rows are unchanged in content and order.
C1_AsStated ==
    [][\A r \in Requests :
          (pc[r] # "done" /\ pc'[r] = "done" /\ response'[r] = Success) =>
              \E p \in 0..Len(sheet) :
                  /\ sheet' = InsertRowAt(sheet, p, CellData(RegistrationRow(body[r])))
                  /\ routeRow[r] < p
                  /\ p <= NextMarker(sheet, routeRow[r])]_vars

\* C4 as stated: the row getTableData and addToTable take as the start of the
\* event's table is the single-cell row the route resolved.
C4_AsStated ==
    \A r \in Requests :
        (pc[r] # "idle" /\ tableStartIndex[r] # -1) =>
            /\ tableStartIndex[r] = routeRow[r]
            /\ (pc[r] # "done" => Len(At(sheet, tableStartIndex[r])) = 1)

SameApplicant(row1, row2) ==
    \/ Truthy(Cell(row1, 2)) /\ Cell(row1, 2) = Cell(row2, 2)
    \/ Truthy(Cell(row1, 1)) /\ Cell(row1, 1) = Cell(row2, 1)

\* C6 as stated: after any sequence of non-overlapping POSTs no two rows after
\* the header row of one event's table share an email or a phone.
C6_AsStated ==
    \A m \in 0..(Len(sheet) - 1) :
        (Len(At(sheet, m)) = 1 /\ At(sheet, m)[1] # "") =>
            \A k1, k2 \in (m + 2)..(NextMarker(sheet, m) - 1) :
                k1 # k2 => ~SameApplicant(At(sheet, k1), At(sheet, k2))

(***************************************************************************)
(* Claims about concurrent calls (Spec)                                    *)
(***************************************************************************)
\* C5: addToTable inserts at the index it computed when it read the sheet,
\* whatever other writers did to the sheet in between: the position is not
\* recomputed and the insert takes no lock.
C5_InsertsAtStalePosition ==
    [][\A r \in Requests :
          /\ (pc[r] = "batchUpdate" /\ pc'[r] = "batchUpdate") =>
                 insertPosition'[r] = insertPosition[r]
          /\ (pc[r] = "batchUpdate" /\ pc'[r] = "done" /\ response'[r] = Success) =>
                 sheet' = InsertRowAt(sheet, insertPosition[r],
                                      CellData(RegistrationRow(body[r])))]_vars

\* C5, reached: a registration answered success whose row sits between the header row and
\* the settings row of its event's table
C5_Witness ==
    \E r \in Requests :
        /\ pc[r] = "done" /\ response[r] = Success
        /\ insertPosition[r] >= 2 /\ insertPosition[r] + 1 < Len(sheet)
        /\ At(sheet, insertPosition[r]) = CellData(RegistrationRow(body[r]))
        /\ At(sheet, insertPosition[r] - 2) = <<exactEventName[r]>>
        /\ At(sheet, insertPosition[r] - 1) = Headers
        /\ At(sheet, insertPosition[r] + 1) = SettingsRow("enabled")

\* a registration answered success whose row sits in another event's table
C5_WitnessOtherTable ==
    \E r \in Requests :
        /\ pc[r] = "done" /\ response[r] = Success
        /\ insertPosition[r] < Len(sheet)
        /\ At(sheet, insertPosition[r]) = CellData(RegistrationRow(body[r]))
        /\ \E m \in 0..(insertPosition[r] - 1) :
              /\ Len(At(sheet, m)) = 1
              /\ At(sheet, m)[1] # exactEventName[r]
              /\ NextMarker(sheet, m) > insertPosition[r]

\* C7: the insert is not conditional on the duplicate check any more: a
\* request that passed the check on the rows it read inserts its row and
\* answers success unless the spreadsheet call itself fails, whatever the
\* table holds by then.
C7_InsertNotRechecked ==
    [][\A r \in Requests :
          (pc[r] = "batchUpdate" /\ pc'[r] = "done") =>
              \/ /\ response'[r] = Success
                 /\ writes'[r] = writes[r] + 1
                 /\ Len(sheet') > Len(sheet)
              \/ /\ response'[r] = FailedToProcess
                 /\ apiFailed'[r]
                 /\ sheet' = sheet]_vars

\* C7, reached: two registrations for one event with one email, both answered success, and
\* two rows with that email in the event's table
C7_Witness ==
    /\ \A r \in Requests : pc[r] = "done" /\ response[r] = Success
    /\ exactEventName[1] = exactEventName[2]
    /\ body[1].email = body[2].email
    /\ \E m \in 0..(Len(sheet) - 1) :
          /\ At(sheet, m) = <<exactEventName[1]>>
          /\ \E k1, k2 \in (m + 1)..(NextMarker(sheet, m) - 1) :
                /\ k1 # k2
                /\ Cell(At(sheet, k1), 2) = body[1].email
                /\ Cell(At(sheet, k2), 2) = body[1].email

(***************************************************************************)
(* Claims about the event's status and the answers of a POST (SpecPost)    *)
(***************************************************************************)
\* the table whose name row is the single-cell row m has 'EventStatus' in its
\* header row and 'disabled' in that column of its settings row
EventTableDisabledAt(data, m) ==
    /\ m + 2 < Len(data)
    /\ \E j \in 0..(Len(At(data, m + 1)) - 1) :
          /\ Cell(At(data, m + 1), j) = "EventStatus"
          /\ Cell(At(data, m + 2), j) = "disabled"

\* C11 as stated: a well-formed registration for an enabled company, no
\* spreadsheet call failing, for an event whose header row contains
\* 'EventStatus' and whose settings row holds 'disabled' in that column, is
\* answered 403 'Event registration is currently disabled' and inserts nothing.
C11_AsStated ==
    \A r \in Requests :
        (/\ pc[r] = "done"
         /\ \A f \in Fields : Truthy(body[r][f])
         /\ Validate(body[r]) = NoResponse
         /\ ~apiFailed[r]
         /\ ~IsCompanyDisabled(getSheetData(companies), companyNameOf(body[r]))
         /\ exactEventName[r] # Undefined
         /\ \E m \in 0..(Len(sheet) - 1) :
               /\ At(sheet, m) = <<exactEventName[r]>>
               /\ EventTableDisabledAt(sheet, m)) =>
            response[r] = EventDisabled /\ writes[r] = 0

\* C12: success is answered only by the step that completes addToTable's
\* batchUpdate; every other answer leaves the spreadsheet unchanged.  A failed
\* read of the company's sheet or of 'companies', or an empty company sheet,
\* is answered 404 'Company not found'; a missing event marker (the company
\* not being disabled) 404 'Event not found'; a failure inside getTableData
\* or addToTable 500 'Failed to process registration'.
C12_AnswersAndWrites ==
    [][\A r \in Requests :
          (pc[r] # "done" /\ pc'[r] = "done") =>
              LET threw == apiFailed'[r] /\ ~apiFailed[r]
                  data  == getSheetData(sheet)
              IN  /\ response'[r] = Success =>
                         /\ pc[r] = "batchUpdate" /\ ~threw
                         /\ writes'[r] = writes[r] + 1
                         /\ sheet' = InsertRowAt(sheet, insertPosition[r],
                                                 CellData(RegistrationRow(body[r])))
                  /\ response'[r] # Success => (sheet' = sheet /\ writes'[r] = writes[r])
                  /\ response'[r].status \in {200, 400, 403, 404, 500}
                  /\ (pc[r] \in {"getSheetData", "getCompanies"} /\ threw) =>
                         response'[r] = CompanyNotFound
                  /\ (pc[r] = "getSheetData" /\ Len(data) = 0) =>
                         response'[r] = CompanyNotFound
                  /\ (/\ pc[r] = "getCompanies" /\ ~threw
                      /\ exactEventName[r] = Undefined
                      /\ ~IsCompanyDisabled(getSheetData(companies), companyNameOf(body[r]))) =>
                         response'[r] = EventNotFound
                  /\ (pc[r] \in {"getTableData", "addToTable", "batchUpdate"} /\ threw) =>
                         response'[r] = FailedToProcess
                  /\ (pc[r] = "getTableData" /\ ~getTableData(data, exactEventName[r]).ok) =>
                         response'[r] = FailedToProcess
                  /\ (pc[r] = "addToTable" /\ ~InsertPlan(data, exactEventName[r]).ok) =>
                         response'[r] = FailedToProcess]_vars

\* C12, reached: the batchUpdate of addToTable failed after every read had
\* succeeded; the answer is 500 and nothing was written
C12_Witness ==
    \E r \in Requests :
        /\ pc[r] = "done" /\ response[r] = FailedToProcess
        /\ apiFailed[r] /\ reads[r] = 5 /\ writes[r] = 0

(***************************************************************************)
(* Claims about where addToTable puts the row (SpecLib)                    *)
(***************************************************************************)
\* the rows of the table at s that lie below its name, header and settings rows
DataRowsOf(s, e) == (s + 3)..(e - 1)

\* C13 as stated: after a successful addToTable the new row comes after all
\* data rows that were already in the table.
C13_AsStated ==
    (lib.op = "addToTable" /\ lib.ok) =>
        /\ At(sheet, lib.insertPosition) = CellData(lib.rowData)
        /\ \A i \in DataRowsOf(lib.tableStartIndex, lib.tableEndIndex) :
              i < lib.insertPosition /\ At(sheet, i) = At(lib.before, i)

\* C13 (amended): after a successful addToTable the new row comes directly
\* after the settings row and before all data rows that were already in the
\* table, which move down by one: the data rows of a table appear newest
\* first.  In a table with no data rows the new row is the last row.
C13_NewRowBeforeDataRows ==
    (lib.op = "addToTable" /\ lib.ok) =>
        LET s == lib.tableStartIndex
            e == lib.tableEndIndex
        IN  /\ At(sheet, lib.insertPosition) = CellData(lib.rowData)
            /\ \A i \in DataRowsOf(s, e) :
                  lib.insertPosition <= i /\ At(sheet, i + 1) = At(lib.before, i)
            /\ DataRowsOf(s, e) # {} => lib.insertPosition = s + 3
            /\ DataRowsOf(s, e) = {} => lib.insertPosition = e

\* C13, reached: a row added to a table that already had a data row
C13_Witness ==
    /\ lib.op = "addToTable" /\ lib.ok
    /\ DataRowsOf(lib.tableStartIndex, lib.tableEndIndex) # {}
    /\ At(sheet, lib.tableStartIndex + 3) = CellData(lib.rowData)
    /\ At(sheet, lib.tableStartIndex + 4) = At(lib.before, lib.tableStartIndex + 3)

(***************************************************************************)
(* Claims about createTable (SpecCreate)                                   *)
(***************************************************************************)
\* C14: createTable writes the name row and the header row with two separate
\* appends, each at the end of the sheet as it is at that moment; the second
\* may fail after the first succeeded, and nothing ties the header row to the
\* name row.
C14_TwoSeparateAppends ==
    [][\A c \in Creators :
          /\ (ct.call[c].pc = "appendName" /\ ct'.call[c].pc = "appendHeaders") =>
                 sheet' = AppendRows(sheet, <<<<ct.call[c].tableName>>>>)
          /\ (ct.call[c].pc = "appendHeaders" /\ ct'.call[c].pc = "idle") =>
                 \/ sheet' = AppendRows(sheet, <<Headers>>)
                 \/ sheet' = sheet]_vars

\* C14, reached: two createTable calls have both written both their rows and
\* the first name row is followed by the other call's name row, the two
\* header rows coming after both
C14_Witness ==
    /\ \A c \in Creators : ct.call[c].pc = "idle"
    /\ \E m \in 0..(Len(sheet) - 4) :
          /\ Len(sheet) = m + 4
          /\ Len(At(sheet, m)) = 1 /\ Len(At(sheet, m + 1)) = 1
          /\ At(sheet, m) # At(sheet, m + 1)
          /\ At(sheet, m + 2) = Headers /\ At(sheet, m + 3) = Headers

\* C14, reached: the second append failed; the sheet ends with a name row
\* that has no header row
C14_WitnessFailedAppend ==
    /\ \A c \in Creators : ct.call[c].pc = "idle"
    /\ Len(sheet) > 0
    /\ Len(At(sheet, Len(sheet) - 1)) = 1

(***************************************************************************)
(* Claims about the insert index of addToTable (SpecLib)                   *)
(***************************************************************************)
\* C15: for every sheet and every table found at row s with end index e, the
\* index p at which addToTable inserts is s+3 when s+3 < e and e otherwise;
\* s < p <= e, the new row is at p, the rows up to the name row stay where
\* they were and the rows from e on (the next table) move down by one.
C15_InsertIndex ==
    (lib.op = "addToTable" /\ lib.ok) =>
        LET s == lib.tableStartIndex
            e == lib.tableEndIndex
            p == lib.insertPosition
        IN  /\ p = (IF s + 3 < e THEN s + 3 ELSE e)
            /\ s < p /\ p <= e
            /\ Len(sheet) = Len(lib.before) + 1
            /\ At(sheet, p) = CellData(lib.rowData)
            /\ \A i \in 0..s : At(sheet, i) = At(lib.before, i)
            /\ \A i \in e..(Len(lib.before) - 1) : At(sheet, i + 1) = At(lib.before, i)

\* C15, reached: a table too short for s+3, followed by another table: the
\* row is inserted at e, directly above the next table's marker row
C15_Witness ==
    /\ lib.op = "addToTable" /\ lib.ok
    /\ lib.tableStartIndex + 3 > lib.tableEndIndex
    /\ lib.insertPosition = lib.tableEndIndex
    /\ lib.tableEndIndex < Len(lib.before)
    /\ Len(At(sheet, lib.insertPosition + 1)) = 1

(***************************************************************************)
(* Claims about the header and settings rows (SpecSeq)                     *)
(***************************************************************************)
\* C16 as stated: the row addToTable inserts goes below the name row, the
\* header row and the settings row of the table: the rows at offsets 1 and 2
\* from the name row exist and are the same rows before and after the insert.
C16_AsStated ==
    [][\A r \in Requests :
          (pc[r] = "batchUpdate" /\ pc'[r] = "done" /\ response'[r] = Success) =>
              \A k \in {1, 2} :
                  /\ tableStartIndex[r] + k < Len(sheet)
                  /\ At(sheet', tableStartIndex[r] + k) = At(sheet, tableStartIndex[r] + k)]_vars

\* a row written by the register route: thirteen cells, the registration date
\* in the eighth
IsRegistrationRow(row) == Len(row) = 13 /\ Cell(row, 7) = RegistrationDate

\* C17 as stated: in every state reachable by createTable and registrations,
\* the row the route reads as tableData[1] of a table (the row at offset 2
\* from the table's name row) is never a registration row.
C17_AsStated ==
    LET data == getSheetData(sheet)
    IN  \A m \in 0..(Len(data) - 1) :
            (/\ Len(At(data, m)) = 1 /\ At(data, m)[1] # ""
             /\ m + 2 < NextMarker(data, m)) =>
                ~IsRegistrationRow(At(data, m + 2))

(***************************************************************************)
(* Claims about the sheet after addToTable (SpecLib)                       *)
(***************************************************************************)
IsMarkerRow(row) == Len(row) = 1 /\ row[1] # ""

\* the single-cell marker rows of a sheet, in order, as a read returns them
MarkerSequence(grid) == SelectSeq(getSheetData(grid), IsMarkerRow)

\* C18 as stated: for every rowData a successful addToTable leaves the
\* sequence of single-cell marker rows as it was, and all rows that existed
\* keep their content and order, those at or below the insert index moving
\* down by exactly one.
C18_AsStated ==
    (lib.op = "addToTable" /\ lib.ok) =>
        /\ MarkerSequence(sheet) = MarkerSequence(lib.before)
        /\ Len(sheet) = Len(lib.before) + 1
        /\ \A i \in 0..(Len(lib.before) - 1) :
              At(lib.before, i) = At(sheet, IF i < lib.insertPosition THEN i ELSE i + 1)

\* C19 as stated: after addToTable(sheet, table, rowData) succeeds,
\* getTableData(sheet, table) returns exactly one row more than before the
\* call, and the result contains the row holding the string form of
\* rowData's values (as a read returns it, without trailing empty cells).
C19_AsStated ==
    (lib.op = "addToTable" /\ lib.ok) =>
        LET pre  == getTableData(getSheetData(lib.before), lib.tableName)
            post == getTableData(getSheetData(sheet), lib.tableName)
        IN  /\ post.ok
            /\ Len(post.tableData) = Len(pre.tableData) + 1
            /\ \E k \in 1..Len(post.tableData) :
                  post.tableData[k] = DropTrailingEmpty(CellData(lib.rowData))

====
